---- MODULE Spec2Model ----
(***************************************************************************)
(* A model of media_tracker.py: the Google-Sheet library (rows, the        *)
(* session's cached library_titles), the search tab (search_results,       *)
(* search_page, the form's widget values) and the processors that turn     *)
(* TMDB / AniList / OpenLibrary results into library items.                *)
(*                                                                         *)
(* Text is modelled as a sequence of tokens (<<"Drama", ", ", "Romance">>  *)
(* is the Python string "Drama, Romance"): concatenation is \o, strip()    *)
(* drops blank tokens at both ends, join() puts the separator between the  *)
(* parts.  A token never contains the separators the code uses.  Python's  *)
(* None is the value None below; a number is the token of its decimal      *)
(* text.                                                                   *)
(*                                                                         *)
(* Fault model: a call to an external service (gspread, TMDB, AniList,     *)
(* OpenLibrary) may raise wherever the code catches the exception          *)
(* (try/except), at most one call in a handler's run.  The spreadsheet     *)
(* starts with its header row, which is what get_google_sheet establishes. *)
(***************************************************************************)
EXTENDS Integers, Sequences, FiniteSets

VARIABLES
    sheet,           \* the worksheet: a sequence of rows, each a sequence of cells
    library_titles,  \* st.session_state.library_titles: [present, titles]
    search_results,  \* st.session_state.search_results
    search_page,     \* st.session_state.search_page
    form,            \* the search form's widget values as of the last submit
    calls,           \* history: the search_unified calls since the last submit
    pc,              \* position of the search tab's script run
    buttons,         \* the button the last render drew for each search result
    last,            \* history: the operation that ran last, its input and result
    results_list     \* the results_list a processor appends to

vars == <<sheet, library_titles, search_results, search_page, form, calls, pc,
          buttons, last, results_list>>

----------------------------------------------------------------------------
(* Bounds of the model *)

\* Data rows of the library, pages of a search, items of a processor's list, results
\* of a page, and titles added from the search tab
MaxRows == 2
MaxPage == 2
MaxList == 2
PerPage == 1
MaxAdds == 1

----------------------------------------------------------------------------
(* Text *)

None == <<"<None>">>

\* None where the value is otherwise a single word (a language, a country, a genre)
NoWord == "<None>"

S(t) == <<t>>

Truthy(v) == v # None /\ v # <<>>

\* f"{v}": None formats as the text None
FStr(v) == IF v = None THEN <<"None">> ELSE v

Blank == {" ", "  "}

RECURSIVE LStrip(_)
LStrip(s) == IF s # <<>> /\ Head(s) \in Blank THEN LStrip(Tail(s)) ELSE s

RECURSIVE RStrip(_)
RStrip(s) ==
    IF s # <<>> /\ s[Len(s)] \in Blank THEN RStrip(SubSeq(s, 1, Len(s) - 1)) ELSE s

\* str.strip()
Strip(s) == RStrip(LStrip(s))

LowerTok(t) ==
    CASE t = "Romance" -> "romance"
      [] t = "Crash Landing" -> "crash landing"
      [] t = "Dune" -> "dune"
      [] t = "Solo Leveling" -> "solo leveling"
      [] t = "Frank Herbert" -> "frank herbert"
      [] t = "Heaven Official" -> "heaven official"
      [] t = "Naruto" -> "naruto"
      [] t = "Dark" -> "dark"
      [] t = "Unknown" -> "unknown"
      [] t = "Fantasy" -> "fantasy"
      [] t = "Fiction" -> "fiction"
      [] t = "The Hobbit" -> "the hobbit"
      [] OTHER -> t

\* str.lower()
Lower(s) == [i \in 1..Len(s) |-> LowerTok(s[i])]

\* sep.join(parts), parts a sequence of tokens
RECURSIVE Join(_, _)
Join(sep, parts) ==
    IF parts = <<>> THEN <<>>
    ELSE IF Len(parts) = 1 THEN <<parts[1]>>
    ELSE <<parts[1], sep>> \o Join(sep, Tail(parts))

\* sep.join(parts), parts a sequence of texts
RECURSIVE JoinText(_, _)
JoinText(sep, parts) ==
    IF parts = <<>> THEN <<>>
    ELSE IF Len(parts) = 1 THEN parts[1]
    ELSE parts[1] \o <<sep>> \o JoinText(sep, Tail(parts))

Range(seq) == {seq[i] : i \in 1..Len(seq)}

\* getattr(res, a, d) / res.get(a, d): res.attrs names the attributes present
GetAttr(res, a, d) == IF a \in res.attrs THEN res[a] ELSE d

----------------------------------------------------------------------------
(* Configuration *)

tmdb_poster_base == "https://image.tmdb.org/t/p/w400"
tmdb_backdrop_base == "https://image.tmdb.org/t/p/w780"

GenreNames ==
    {"Action", "Adventure", "Animation", "Comedy", "Crime", "Documentary", "Drama",
     "Family", "Fantasy", "History", "Horror", "Music", "Mystery", "Romance", "Sci-Fi",
     "TV Movie", "Thriller", "War", "Western", "Action & Adventure", "Sci-Fi & Fantasy",
     "War & Politics"}

TMDB_GENRE_MAP ==
    [g \in GenreNames |->
        CASE g = "Action" -> 28 [] g = "Adventure" -> 12 [] g = "Animation" -> 16
          [] g = "Comedy" -> 35 [] g = "Crime" -> 80 [] g = "Documentary" -> 99
          [] g = "Drama" -> 18 [] g = "Family" -> 10751 [] g = "Fantasy" -> 14
          [] g = "History" -> 36 [] g = "Horror" -> 27 [] g = "Music" -> 10402
          [] g = "Mystery" -> 9648 [] g = "Romance" -> 10749 [] g = "Sci-Fi" -> 878
          [] g = "TV Movie" -> 10770 [] g = "Thriller" -> 53 [] g = "War" -> 10752
          [] g = "Western" -> 37 [] g = "Action & Adventure" -> 10759
          [] g = "Sci-Fi & Fantasy" -> 10765 [] g = "War & Politics" -> 10768]

\* ID_TO_GENRE.get(gid, "Unknown")
ID_TO_GENRE(gid) ==
    IF \E g \in GenreNames : TMDB_GENRE_MAP[g] = gid
    THEN CHOOSE g \in GenreNames : TMDB_GENRE_MAP[g] = gid
    ELSE "Unknown"

BOOK_GENRES ==
    <<"Web Novel", "Fiction", "Fantasy", "Sci-Fi", "Mystery", "Thriller", "Romance",
      "History", "Biography", "Business", "Self-Help", "Psychology", "Philosophy",
      "Science", "Technology", "Manga", "Light Novel", "Computers", "Horror", "Poetry",
      "Comics", "Art", "Cooking">>

all_types ==
    <<"Movies", "Web Series", "K-Drama", "C-Drama", "Thai Drama", "Anime", "Donghua",
      "Manga", "Manhwa", "Manhua", "Novel", "Book">>

REQUIRED_HEADERS ==
    <<S("Title"), S("Type"), S("Country"), S("Status"), S("Genres"), S("Image"),
      S("Overview"), S("Rating"), S("Backdrop"), S("Current_Season"), S("Current_Ep"),
      S("Total_Eps"), S("Total_Seasons"), S("ID")>>

----------------------------------------------------------------------------
(* Sample responses of the external catalogues.  A record's attrs names    *)
(* the attributes the response carries; the others are absent.             *)

TmdbAttrs ==
    {"title", "name", "original_language", "genre_ids", "poster_path", "overview",
     "vote_average", "backdrop_path", "id"}

TmdbRes(as, title, name, lang, gids, poster, vote, backdrop, id) ==
    [attrs |-> as, title |-> title, name |-> name, original_language |-> lang,
     genre_ids |-> gids, poster_path |-> poster, overview |-> S("..."),
     vote_average |-> vote, backdrop_path |-> backdrop, id |-> id]

MovieRomance ==
    TmdbRes(TmdbAttrs \ {"name"}, S("Romance"), <<>>, "fr", <<18, 10749>>, S("/r.jpg"),
            S("6.1"), None, S("11"))
MovieDark ==
    TmdbRes(TmdbAttrs \ {"name"}, <<"Dark", " ">>, <<>>, "en", <<27>>, None,
            S("7.0"), S("/d.jpg"), S("12"))
TvCrash ==
    TmdbRes(TmdbAttrs \ {"title"}, <<>>, S("Crash Landing"), "ko", <<10749>>, S("/c.jpg"),
            S("8.7"), S("/cb.jpg"), S("22"))
TvNaruto ==
    TmdbRes(TmdbAttrs \ {"title"}, <<>>, S("Naruto"), "ja", <<16, 10759>>, S("/n.jpg"),
            S("8.4"), S("/nb.jpg"), S("23"))
TvUntamed ==
    TmdbRes(TmdbAttrs \ {"title"}, <<>>, S("The Untamed"), "zh", <<18, 14>>, None,
            S("8.9"), None, S("24"))
TvGirl ==
    TmdbRes(TmdbAttrs \ {"title"}, <<>>, S("Girl From Nowhere"), "th", <<9648>>, None,
            S("7.9"), None, S("25"))
TvBare ==
    TmdbRes({"name", "id"}, <<>>, S("Lupin"), "en", <<>>, None, S("0"), <<>>, S("26"))
TvLupin ==
    TmdbRes(TmdbAttrs \ {"title"}, <<>>, S("Lupin"), "fr", <<80, 99999>>, None,
            S("7.8"), None, S("26"))

TmdbMovies == <<MovieRomance, MovieDark>>
TmdbShows == <<TvCrash, TvNaruto, TvUntamed, TvGirl, TvBare, TvLupin>>

AniAttrs ==
    {"countryOfOrigin", "genres", "description", "episodes", "chapters", "volumes",
     "averageScore", "coverImage", "bannerImage", "externalLinks"}

AniRes(as, english, romaji, origin, type, format, genres, desc, eps, chs, score) ==
    [attrs |-> as, title |-> [english |-> english, romaji |-> romaji],
     countryOfOrigin |-> origin, type |-> type, format |-> format, genres |-> genres,
     description |-> desc, episodes |-> eps, chapters |-> chs, volumes |-> None,
     averageScore |-> score, coverImage |-> [large |-> S("cover.png")],
     bannerImage |-> None, externalLinks |-> <<>>]

AniSolo ==
    AniRes(AniAttrs, S("Solo Leveling"), S("Na Honjaman Level Up"), "KR", "MANGA", "MANGA",
           <<"Action", "Fantasy">>, <<"A hunter", "<br>", "rises">>, None, S("179"), 85)
AniHeaven ==
    AniRes(AniAttrs, None, S("Heaven Official"), "CN", "ANIME", "TV",
           <<"Romance">>, None, S("12"), None, 0)
AniNaruto ==
    AniRes(AniAttrs \ {"countryOfOrigin"}, S("Naruto"), S("NARUTO"), "JP", "ANIME", "TV",
           <<"Action">>, <<>>, S("220"), None, 79)
AniBerserk ==
    AniRes(AniAttrs, S("Berserk"), S("Berserk"), "JP", "MANGA", "MANGA",
           <<"Horror">>, S("dark"), None, None, 93)
AniTbate ==
    AniRes(AniAttrs, S("The Beginning After The End"), S("TBATE"), "KR", "MANGA", "NOVEL",
           <<"Fantasy">>, S("reborn"), None, S("400"), 80)
AniManhua ==
    AniRes(AniAttrs, S("Tales of Demons"), S("Yaoshenji"), "CN", "MANGA", "MANGA",
           <<"Fantasy">>, S("demons"), None, S("300"), 70)

AniMedia == <<AniSolo, AniHeaven, AniNaruto, AniBerserk, AniTbate, AniManhua>>

HtmlTags == {"<br>", "<i>", "</i>", "<b>", "</b>"}

----------------------------------------------------------------------------
(* Processors *)

\* A faulty variant of DetectType that C1 must reject: ja falls through to Web Series
DetectTypeNoAnime(media_kind, origin) ==
    IF media_kind = "Movie" THEN "Movies"
    ELSE IF origin = "ko" THEN "K-Drama"
    ELSE IF origin = "zh" THEN "C-Drama"
    ELSE IF origin = "th" THEN "Thai Drama"
    ELSE "Web Series"

DetectType(media_kind, origin) ==
    IF media_kind = "Movie" THEN "Movies"
    ELSE IF origin = "ko" THEN "K-Drama"
    ELSE IF origin = "zh" THEN "C-Drama"
    ELSE IF origin = "th" THEN "Thai Drama"
    ELSE IF origin = "ja" THEN "Anime"
    ELSE IF origin = "en" THEN "Web Series"
    ELSE "Web Series"

TmdbItem(res, detected_type, origin, res_genres) ==
    LET poster == GetAttr(res, "poster_path", None)
    IN  [Title |-> GetAttr(res, "title", GetAttr(res, "name", S("Unknown"))),
         Type |-> detected_type,
         Country |-> S(origin),
         Genres |-> Join(", ", res_genres),
         Image |-> IF Truthy(poster) THEN <<tmdb_poster_base>> \o poster ELSE <<>>,
         Overview |-> GetAttr(res, "overview", S("No overview.")),
         Rating |-> FStr(GetAttr(res, "vote_average", S("0"))) \o <<"/10">>,
         Backdrop |-> <<tmdb_backdrop_base>> \o FStr(GetAttr(res, "backdrop_path", <<>>)),
         Total_Eps |-> S("?"),
         ID |-> GetAttr(res, "id", None)]

\* A faulty variant of process_tmdb_result that C12 must reject: the detected type
\* is not held against selected_types
ProcessTmdbAnyType(res, media_kind, rl, selected_types, selected_genres) ==
    LET origin == GetAttr(res, "original_language", "en")
        detected_type == DetectType(media_kind, origin)
        genre_ids == GetAttr(res, "genre_ids", <<>>)
        res_genres == [i \in 1..Len(genre_ids) |-> ID_TO_GENRE(genre_ids[i])]
    IN  IF selected_genres # <<>>
           /\ ~ \E i \in 1..Len(selected_genres) : selected_genres[i] \in Range(res_genres)
        THEN rl
        ELSE Append(rl, TmdbItem(res, detected_type, origin, res_genres))

process_tmdb_result(res, media_kind, rl, selected_types, selected_genres) ==
    LET origin == GetAttr(res, "original_language", "en")
        detected_type == DetectType(media_kind, origin)
        genre_ids == GetAttr(res, "genre_ids", <<>>)
        res_genres == [i \in 1..Len(genre_ids) |-> ID_TO_GENRE(genre_ids[i])]
    IN  IF detected_type \notin selected_types THEN rl
        ELSE IF selected_genres # <<>>
                /\ ~ \E i \in 1..Len(selected_genres) : selected_genres[i] \in Range(res_genres)
        THEN rl
        ELSE Append(rl, TmdbItem(res, detected_type, origin, res_genres))

\* f"{avg_score/10}": the quotient with one decimal
TenthStr(n) ==
    LET d(k) == CASE k = 0 -> "0" [] k = 1 -> "1" [] k = 2 -> "2" [] k = 3 -> "3"
                  [] k = 4 -> "4" [] k = 5 -> "5" [] k = 6 -> "6" [] k = 7 -> "7"
                  [] k = 8 -> "8" [] k = 9 -> "9" [] k = 10 -> "10"
    IN  <<d(n \div 10), ".", d(n % 10)>>

Or3(a, b, c, d) == IF Truthy(a) THEN a ELSE IF Truthy(b) THEN b ELSE IF Truthy(c) THEN c ELSE d

AniItem(res, final_type, origin, res_genres) ==
    LET raw == GetAttr(res, "description", <<>>)
        avg_score == GetAttr(res, "averageScore", 0)
    IN  [Title |-> IF Truthy(res.title.english) THEN res.title.english ELSE res.title.romaji,
         Type |-> final_type,
         Country |-> S(origin),
         Genres |-> Join(", ", res_genres),
         Image |-> IF "coverImage" \in res.attrs THEN res.coverImage.large ELSE <<>>,
         Overview |-> IF Truthy(raw) THEN SelectSeq(raw, LAMBDA t : t \notin HtmlTags)
                      ELSE S("No description."),
         Rating |-> IF avg_score # 0 THEN TenthStr(avg_score) \o <<"/10">> ELSE S("?/10"),
         Backdrop |-> GetAttr(res, "bannerImage", <<>>),
         Total_Eps |-> Or3(GetAttr(res, "episodes", None), GetAttr(res, "chapters", None),
                           GetAttr(res, "volumes", None), S("?")),
         ID |-> None,
         Links |-> GetAttr(res, "externalLinks", <<>>)]

\* A faulty variant of AniSkip that C13 must reject: 'Web Novel' stays in the genres
\* a result is held against
AniSkipKeepsWebNovel(res, forced_type, selected_genres) ==
    LET origin == GetAttr(res, "countryOfOrigin", "JP")
        res_genres == GetAttr(res, "genres", <<>>)
    IN  \/ forced_type = "Donghua" /\ origin # "CN"
        \/ forced_type = "Manhwa" /\ origin # "KR"
        \/ forced_type = "Manhua" /\ origin # "CN"
        \/ /\ selected_genres # <<>>
           /\ ~ \E i \in 1..Len(selected_genres) : selected_genres[i] \in Range(res_genres)

\* A faulty variant of AniSkip that C9 must reject: Manhwa is not held to KR
AniSkipNoManhwa(res, forced_type, selected_genres) ==
    LET origin == GetAttr(res, "countryOfOrigin", "JP")
        res_genres == GetAttr(res, "genres", <<>>)
        filtered_genres == SelectSeq(selected_genres, LAMBDA g : g # "Web Novel")
    IN  \/ forced_type = "Donghua" /\ origin # "CN"
        \/ forced_type = "Manhua" /\ origin # "CN"
        \/ /\ selected_genres # <<>>
           /\ filtered_genres # <<>>
           /\ ~ \E i \in 1..Len(filtered_genres) : filtered_genres[i] \in Range(res_genres)

AniSkip(res, forced_type, selected_genres) ==
    LET origin == GetAttr(res, "countryOfOrigin", "JP")
        res_genres == GetAttr(res, "genres", <<>>)
        filtered_genres == SelectSeq(selected_genres, LAMBDA g : g # "Web Novel")
    IN  \/ forced_type = "Donghua" /\ origin # "CN"
        \/ forced_type = "Manhwa" /\ origin # "KR"
        \/ forced_type = "Manhua" /\ origin # "CN"
        \/ /\ selected_genres # <<>>
           /\ filtered_genres # <<>>
           /\ ~ \E i \in 1..Len(filtered_genres) : filtered_genres[i] \in Range(res_genres)

RECURSIVE process_anilist_results(_, _, _, _)
process_anilist_results(res_list, rl, forced_type, selected_genres) ==
    IF res_list = <<>> THEN rl
    ELSE LET res == Head(res_list)
             next == IF AniSkip(res, forced_type, selected_genres) THEN rl
                     ELSE Append(rl, AniItem(res, forced_type,
                                             GetAttr(res, "countryOfOrigin", "JP"),
                                             GetAttr(res, "genres", <<>>)))
         IN  process_anilist_results(Tail(res_list), next, forced_type, selected_genres)

\* round(x, 1) of a value given in hundredths, as text
Round1Str(h) == TenthStr((h + 5) \div 10)

OlAttrs ==
    {"cover_i", "title", "author_name", "first_publish_year", "first_sentence",
     "ratings_average", "subject", "number_of_pages_median", "key"}

OlDoc(as, title, authors, sentence, rating, subjects, pages, key) ==
    [attrs |-> as, cover_i |-> S("8231"), title |-> title, author_name |-> authors,
     first_publish_year |-> S("1965"), first_sentence |-> sentence,
     ratings_average |-> rating, subject |-> subjects,
     number_of_pages_median |-> pages, key |-> key]

OlDune ==
    OlDoc(OlAttrs, S("Dune"), <<"Frank Herbert", "B. Herbert", "K. Anderson">>,
          <<S("A beginning is a delicate time.")>>, 427,
          <<"Science fiction", "Fiction", "Deserts", "Ecology">>, S("612"), S("/works/OL1W"))
OlHobbit ==
    OlDoc({"title", "subject", "key"}, <<" ", "The Hobbit", " ">>, <<>>, <<>>, 0,
          <<"Fantasy">>, None, S("/works/OL2W"))

OpenLibraryDocs == <<OlDune, OlHobbit>>

OlItem(item, detected_type) ==
    LET cover_id == GetAttr(item, "cover_i", None)
        author_list == GetAttr(item, "author_name", <<>>)
        authors == Join(", ", SubSeq(author_list, 1, IF Len(author_list) < 2
                                                      THEN Len(author_list) ELSE 2))
        title0 == GetAttr(item, "title", S("Unknown"))
        desc0 == <<"First published in ">>
                 \o GetAttr(item, "first_publish_year", S("Unknown")) \o <<".">>
        sentence == GetAttr(item, "first_sentence", None)
        subjects == GetAttr(item, "subject", <<>>)
    IN  [Title |-> IF authors # <<>> THEN title0 \o <<" - ">> \o authors ELSE title0,
         Type |-> detected_type,
         Country |-> S("International"),
         Genres |-> Join(", ", SubSeq(subjects, 1, IF Len(subjects) < 3
                                                   THEN Len(subjects) ELSE 3)),
         Image |-> IF Truthy(cover_id)
                   THEN <<"https://covers.openlibrary.org/b/id/">> \o cover_id \o <<"-L.jpg">>
                   ELSE S("https://via.placeholder.com/300x450?text=No+Cover"),
         Overview |-> IF Truthy(sentence)
                      THEN <<"\"">> \o sentence[1] \o <<"\" - ">> \o desc0
                      ELSE desc0,
         Rating |-> (IF "ratings_average" \in item.attrs
                     THEN Round1Str(item.ratings_average) ELSE S("0")) \o <<"/5">>,
         Backdrop |-> <<>>,
         Total_Eps |-> FStr(GetAttr(item, "number_of_pages_median", S("?"))),
         ID |-> GetAttr(item, "key", None),
         Source |-> "OpenLibrary",
         Links |-> <<>>]

RECURSIVE process_open_library(_, _, _)
process_open_library(items, rl, detected_type) ==
    IF items = <<>> THEN rl
    ELSE process_open_library(Tail(items), Append(rl, OlItem(Head(items), detected_type)),
                              detected_type)

----------------------------------------------------------------------------
(* The worksheet as gspread shows it: values are read back as text, an     *)
(* empty cell as the empty text.                                           *)

NoTitles == [present |-> FALSE, titles |-> <<>>]

NCols == Len(REQUIRED_HEADERS)

\* What a written value reads back as: None leaves the cell empty
Cell(v) == IF v = None THEN <<>> ELSE v

RECURSIVE TrimEmpty(_)
TrimEmpty(col) ==
    IF col # <<>> /\ col[Len(col)] = <<>> THEN TrimEmpty(SubSeq(col, 1, Len(col) - 1))
    ELSE col

\* sheet.col_values(c): the column top to bottom, without its trailing empty cells
col_values(sh, c) == TrimEmpty([i \in 1..Len(sh) |-> sh[i][c]])

\* sheet.find(q): the first cell, rows top to bottom and each row left to right,
\* whose value is q; None when there is none
find(sh, q) ==
    LET hits == {rc \in (1..Len(sh)) \X (1..NCols) : sh[rc[1]][rc[2]] = q}
    IN  IF hits = {} THEN None
        ELSE CHOOSE rc \in hits :
                \A o \in hits : rc[1] < o[1] \/ (rc[1] = o[1] /\ rc[2] <= o[2])

update_cell(sh, r, c, v) == [sh EXCEPT ![r][c] = Cell(v)]

delete_rows(sh, r) == SubSeq(sh, 1, r - 1) \o SubSeq(sh, r + 1, Len(sh))

append_row(sh, row) == Append(sh, [i \in 1..Len(row) |-> Cell(row[i])])

\* get_google_sheet, once connected: the header row is written when missing
get_google_sheet(sh) ==
    IF sh = <<>> THEN append_row(sh, REQUIRED_HEADERS)
    ELSE IF sh[1] # REQUIRED_HEADERS /\ Len(sh[1]) < Len(REQUIRED_HEADERS)
    THEN [sh EXCEPT ![1] = REQUIRED_HEADERS]
    ELSE sh

\* get_library_titles; f.rconn, f.rcol: the connection and col_values succeed
get_library_titles(sh, lt, f) ==
    IF lt.present THEN [sheet |-> sh, library_titles |-> lt]
    ELSE IF ~f.rconn THEN [sheet |-> sh, library_titles |-> [present |-> TRUE, titles |-> <<>>]]
    ELSE LET sh1 == get_google_sheet(sh)
             titles == col_values(sh1, 1)
             kept == SelectSeq(Tail(titles), LAMBDA t : t # <<>>)
         IN  [sheet |-> sh1,
              library_titles |->
                 [present |-> TRUE,
                  titles |-> IF f.rcol /\ titles # <<>>
                             THEN [i \in 1..Len(kept) |-> Strip(kept[i])] ELSE <<>>]]

refresh_library_titles(sh, lt, f) == get_library_titles(sh, NoTitles, f)

\* tv_api.details(media_id) of TMDB: number_of_seasons, number_of_episodes
TvDetails(media_id) ==
    CASE media_id = S("22") -> [number_of_seasons |-> S("1"), number_of_episodes |-> S("16")]
      [] media_id = S("23") -> [number_of_seasons |-> S("9"), number_of_episodes |-> S("220")]
      [] OTHER -> [number_of_seasons |-> S("2"), number_of_episodes |-> S("20")]

\* A faulty variant of DefaultStatus that C14 must reject: Book and Novel are left
\* out of the types that are read
DefaultStatusComicsOnly(type) ==
    IF type \in {"Manga", "Manhwa", "Manhua"} THEN S("Plan to Read")
    ELSE S("Plan to Watch")

DefaultStatus(type) ==
    IF type \in {"Manga", "Manhwa", "Manhua", "Book", "Novel"} THEN S("Plan to Read")
    ELSE S("Plan to Watch")

\* A faulty variant of RowData that C2 must reject: Country and Status change places
RowDataSwapped(item, total_eps, total_seasons, media_id) ==
    <<item.Title, S(item.Type), DefaultStatus(item.Type), item.Country, item.Genres,
      item.Image, item.Overview, item.Rating, item.Backdrop, S("1"), S("0"), total_eps,
      total_seasons, media_id>>

RowData(item, total_eps, total_seasons, media_id) ==
    <<item.Title, S(item.Type), item.Country, DefaultStatus(item.Type), item.Genres,
      item.Image, item.Overview, item.Rating, item.Backdrop, S("1"), S("0"), total_eps,
      total_seasons, media_id>>

\* The duplicate check of fetch_details_and_add (lines 131-137): TRUE when the
\* add is refused.  f.col: col_values succeeds
IsDuplicate(sh, item, f) == f.col /\ item.Title \in Range(col_values(sh, 1))

\* fetch_details_and_add(item).  f.conn, f.col, f.tv, f.append, f.rconn, f.rcol: the
\* connection, col_values, the TV details, append_row and the refresh's two calls
\* succeed
fetch_details_and_add(sh, lt, item, f) ==
    IF ~f.conn THEN [sheet |-> sh, library_titles |-> lt, ret |-> FALSE]
    ELSE LET sh1 == get_google_sheet(sh)
             media_id == item.ID
             tv == item.Type \in {"Web Series", "K-Drama", "C-Drama", "Thai Drama"}
                   /\ Truthy(media_id) /\ f.tv
             total_seasons == IF tv THEN TvDetails(media_id).number_of_seasons ELSE S("1")
             total_eps == IF tv THEN TvDetails(media_id).number_of_episodes
                          ELSE item.Total_Eps
         IN  IF IsDuplicate(sh1, item, f)
             THEN [sheet |-> sh1, library_titles |-> lt, ret |-> FALSE]
             ELSE IF ~f.append THEN [sheet |-> sh1, library_titles |-> lt, ret |-> FALSE]
             ELSE LET sh2 == append_row(sh1, RowData(item, total_eps, total_seasons, media_id))
                      r == refresh_library_titles(sh2, lt, f)
                  IN  [sheet |-> r.sheet, library_titles |-> r.library_titles, ret |-> TRUE]

\* The row update_status_in_sheet and delete_from_sheet act on
TargetCell(sh, title) == find(sh, title)

\* update_status_in_sheet(title, new_status, new_season, new_ep).  f.conn, f.find,
\* f.u1, f.u2, f.u3: the connection, find and the three update_cell calls succeed
update_status_in_sheet(sh, title, new_status, new_season, new_ep, f) ==
    IF ~f.conn THEN sh
    ELSE LET sh1 == get_google_sheet(sh)
             cell == TargetCell(sh1, title)
         IN  IF ~f.find \/ cell = None THEN sh1
             ELSE IF ~f.u1 THEN sh1
             ELSE LET sh2 == update_cell(sh1, cell[1], 4, new_status)
                  IN  IF ~f.u2 THEN sh2
                      ELSE LET sh3 == update_cell(sh2, cell[1], 10, new_season)
                           IN  IF ~f.u3 THEN sh3
                               ELSE update_cell(sh3, cell[1], 11, new_ep)

\* delete_from_sheet(title).  f.conn, f.find, f.del, f.rconn, f.rcol: the connection,
\* find, delete_rows and the refresh's two calls succeed
delete_from_sheet(sh, lt, title, f) ==
    IF ~f.conn THEN [sheet |-> sh, library_titles |-> lt]
    ELSE LET sh1 == get_google_sheet(sh)
             cell == TargetCell(sh1, title)
         IN  IF ~f.find \/ cell = None \/ ~f.del THEN [sheet |-> sh1, library_titles |-> lt]
             ELSE refresh_library_titles(delete_rows(sh1, cell[1]), lt, f)

----------------------------------------------------------------------------
(* The gallery's "Save Order" (lines 660-714) and bulk_update_order        *)

\* safe_rows as the DataFrame df: each row with its index label (0-based)
GalleryFrame(raw_data) ==
    LET safe_rows == SelectSeq(Tail(raw_data),
                               LAMBDA row : row # <<>> /\ Strip(row[1]) # <<>>)
    IN  [i \in 1..Len(safe_rows) |-> [label |-> i - 1, row |-> safe_rows[i]]]

\* df after the Filter Type and Status filters (an empty filter keeps every row)
FilterFrame(df, filter_type, filter_status) ==
    SelectSeq(df, LAMBDA d : /\ filter_type = {} \/ d.row[2] \in filter_type
                             /\ filter_status = {} \/ d.row[4] \in filter_status)

\* new_order_indices: for each sorted title, the first label of title_map[title]
\* not yet taken (title_map[title].pop(0))
RECURSIVE NewOrderIndices(_, _)
NewOrderIndices(sorted_titles, avail) ==
    IF sorted_titles = <<>> THEN <<>>
    ELSE LET t == Head(sorted_titles)
             hit == {i \in 1..Len(avail) : avail[i].row[1] = t}
         IN  IF hit = {} THEN NewOrderIndices(Tail(sorted_titles), avail)
             ELSE LET i == CHOOSE j \in hit : \A o \in hit : j <= o
                  IN  <<avail[i].label>>
                      \o NewOrderIndices(Tail(sorted_titles),
                                         SubSeq(avail, 1, i - 1) \o SubSeq(avail, i + 1, Len(avail)))

\* The rows of new_df = df.iloc[final_global_indices]; error when a slot or a
\* position lies outside df (IndexError)
ReorderedRows(df, subset, sorted_titles) ==
    LET original_indices == [i \in 1..Len(subset) |-> subset[i].label]
        new_order_indices == NewOrderIndices(sorted_titles, subset)
        n == IF Len(original_indices) < Len(new_order_indices)
             THEN Len(original_indices) ELSE Len(new_order_indices)
        labels == [i \in 1..Len(df) |-> df[i].label]
        final_global_indices ==
            [pos \in 1..Len(df) |->
                IF \E k \in 1..n : original_indices[k] = pos - 1
                THEN new_order_indices[CHOOSE k \in 1..n : original_indices[k] = pos - 1]
                ELSE labels[pos]]
    IN  IF \/ \E k \in 1..n : original_indices[k] >= Len(df)
           \/ \E pos \in 1..Len(df) : final_global_indices[pos] >= Len(df)
        THEN [error |-> TRUE, rows |-> <<>>]
        ELSE [error |-> FALSE,
              rows |-> [pos \in 1..Len(df) |-> df[final_global_indices[pos] + 1].row]]

\* bulk_update_order(new_df), once connected: header = row_values(1), clear(),
\* append_row(header), append_rows(data)
bulk_update_order(sh, data_to_upload) ==
    LET header == TrimEmpty(sh[1])
    IN  append_row(<<>>, header) \o data_to_upload

Permutations(k) == {p \in [1..k -> 1..k] : \A i, j \in 1..k : p[i] = p[j] => i = j}

----------------------------------------------------------------------------
(* The external catalogues as services: a request answers with one page of *)
(* the sample responses that match it.                                     *)

PageOf(seq, page) ==
    SubSeq(seq, (page - 1) * PerPage + 1,
           IF page * PerPage < Len(seq) THEN page * PerPage ELSE Len(seq))

Reverse(seq) == [i \in 1..Len(seq) |-> seq[Len(seq) + 1 - i]]

\* A text matches a query that names one of its words
MatchQ(q, text) == Truthy(text) /\ LowerTok(q[1]) \in Range(Lower(text))

TmdbCatalogue(media_kind) == IF media_kind = "Movie" THEN TmdbMovies ELSE TmdbShows

\* search.movies(q, page) / search.tv_shows(q, page)
TmdbSearch(media_kind, q, page) ==
    PageOf(SelectSeq(TmdbCatalogue(media_kind),
                     LAMBDA r : MatchQ(q, IF media_kind = "Movie" THEN r.title ELSE r.name)),
           page)

\* discover.discover_movies(kwargs) / discover.discover_tv_shows(kwargs)
TmdbDiscover(media_kind, sort_by, page, with_genres, with_original_language) ==
    LET hits == SelectSeq(TmdbCatalogue(media_kind),
                    LAMBDA r : /\ with_genres = <<>>
                                  \/ \E i \in 1..Len(with_genres) :
                                        with_genres[i] \in Range(r.genre_ids)
                               /\ with_original_language = NoWord
                                  \/ r.original_language = with_original_language)
    IN  PageOf(IF sort_by = "vote_average.desc" THEN Reverse(hits) ELSE hits, page)

\* fetch_anilist_list(query, type_, genres, sort_opt, page, country, format); ok: the
\* request succeeds
fetch_anilist_list(query, type_, genres, sort_opt, page, country, format, ok) ==
    LET anilist_sort == IF sort_opt = "Top Rated" THEN "SCORE_DESC"
                        ELSE IF sort_opt = "Relevance" /\ query # <<>> THEN "SEARCH_MATCH"
                        ELSE "POPULARITY_DESC"
        hits == SelectSeq(AniMedia,
                    LAMBDA m : /\ m.type = type_
                               /\ query = <<>> \/ MatchQ(query, m.title.english)
                                               \/ MatchQ(query, m.title.romaji)
                               /\ genres = <<>>
                                  \/ \E i \in 1..Len(genres) : genres[i] \in Range(m.genres)
                               /\ country = NoWord \/ m.countryOfOrigin = country
                               /\ format = NoWord \/ m.format = format)
    IN  IF ~ok THEN <<>>
        ELSE PageOf(IF anilist_sort = "SCORE_DESC" THEN Reverse(hits) ELSE hits, page)

\* fetch_open_library(query, genre); ok: the request succeeds.  q_subject is the
\* "subject:" term added to q, subject the subject parameter
fetch_open_library(query, genre, ok) ==
    LET q_subject == IF query # <<>> /\ genre # NoWord /\ genre # "Web Novel" THEN genre
                     ELSE NoWord
        subject == IF query # <<>> THEN NoWord ELSE IF genre # NoWord THEN genre ELSE "fiction"
        Subjects(d) == {LowerTok(d.subject[i]) : i \in 1..Len(d.subject)}
    IN  IF ~ok THEN <<>>
        ELSE SelectSeq(OpenLibraryDocs,
                 LAMBDA d : /\ query = <<>> \/ MatchQ(query, d.title)
                               \/ LowerTok(query[1]) \in Subjects(d)
                            /\ q_subject = NoWord \/ LowerTok(q_subject) \in Subjects(d)
                            /\ subject = NoWord \/ LowerTok(subject) \in Subjects(d))

----------------------------------------------------------------------------
(* search_unified *)

RECURSIVE ProcessTmdbList(_, _, _, _, _, _, _)
ProcessTmdbList(results, media_kind, specific_type, query, rl, selected_types, selected_genres) ==
    IF results = <<>> THEN rl
    ELSE LET r == Head(results)
             res_lang == GetAttr(r, "original_language", "en")
             match == ~ /\ query = <<>>
                        /\ \/ specific_type = "K-Drama" /\ res_lang # "ko"
                           \/ specific_type = "C-Drama" /\ res_lang # "zh"
                           \/ specific_type = "Thai Drama" /\ res_lang # "th"
             next == IF match
                     THEN process_tmdb_result(r, media_kind, rl, selected_types,
                                              selected_genres)
                     ELSE rl
         IN  ProcessTmdbList(Tail(results), media_kind, specific_type, query, next,
                             selected_types, selected_genres)

\* run_tmdb(media_kind, specific_type, lang_filter) inside search_unified; ok: the
\* TMDB request succeeds
run_tmdb(media_kind, specific_type, lang_filter, query, selected_types, selected_genres, sort_option, page, rl, ok) ==
    LET tmdb_genres == SelectSeq(selected_genres, LAMBDA g : g \in GenreNames)
        g_ids == [i \in 1..Len(tmdb_genres) |-> TMDB_GENRE_MAP[tmdb_genres[i]]]
        tmdb_sort == IF sort_option = "Top Rated" THEN "vote_average.desc"
                     ELSE "popularity.desc"
        active_q == IF query # <<>> /\ specific_type = "K-Drama" THEN query \o <<" Korean">>
                    ELSE IF query # <<>> /\ specific_type = "C-Drama"
                    THEN query \o <<" Chinese">>
                    ELSE query
        results == IF active_q # <<>> THEN TmdbSearch(media_kind, active_q, page)
                   ELSE TmdbDiscover(media_kind, tmdb_sort, page, g_ids, lang_filter)
    IN  IF ~ok THEN rl
        ELSE ProcessTmdbList(results, media_kind, specific_type, query, rl, selected_types,
                             selected_genres)

\* One AniList section of search_unified: fetch_anilist_list, process_anilist_results
AniSection(rl, on, forced_type, type_, country, format, query, selected_genres, sort_option, page, ok) ==
    IF ~on THEN rl
    ELSE process_anilist_results(
             fetch_anilist_list(query, type_, selected_genres, sort_option, page, country,
                                format, ok),
             rl, forced_type, selected_genres)

\* One TMDB section of search_unified (lines 471-475)
TmdbSection(rl, media_kind, specific_type, lang_filter, query, selected_types, selected_genres, sort_option, page, ok) ==
    IF specific_type \in selected_types
    THEN run_tmdb(media_kind, specific_type, lang_filter, query, selected_types,
                  selected_genres, sort_option, page, rl, ok)
    ELSE rl

\* The TMDB sections of search_unified in the order of lines 471-475
TmdbSections ==
    << [media_kind |-> "Movie", specific_type |-> "Movies", lang_filter |-> NoWord],
       [media_kind |-> "TV", specific_type |-> "Web Series", lang_filter |-> NoWord],
       [media_kind |-> "TV", specific_type |-> "K-Drama", lang_filter |-> "ko"],
       [media_kind |-> "TV", specific_type |-> "C-Drama", lang_filter |-> "zh"],
       [media_kind |-> "TV", specific_type |-> "Thai Drama", lang_filter |-> "th"] >>

\* The TMDB part of search_unified (lines 428-475): the sections secs run in order on rl
RECURSIVE TmdbPart(_, _, _, _, _, _, _, _)
TmdbPart(secs, rl, q, st, sg, so, page, ok) ==
    IF secs = <<>> THEN rl
    ELSE TmdbPart(Tail(secs),
                  TmdbSection(rl, Head(secs).media_kind, Head(secs).specific_type,
                              Head(secs).lang_filter, q, st, sg, so, page, ok),
                  q, st, sg, so, page, ok)

\* The AniList sections of search_unified in the order of lines 478-504
AniSections(st, sg) ==
    LET web == "Novel" \in st /\ "Web Novel" \in Range(sg)
        Sec(on, forced_type, type_, country, format) ==
            [on |-> on, forced_type |-> forced_type, type |-> type_, country |-> country,
             format |-> format]
    IN  << Sec("Anime" \in st, "Anime", "ANIME", NoWord, NoWord),
           Sec("Donghua" \in st, "Donghua", "ANIME", "CN", NoWord),
           Sec("Manga" \in st, "Manga", "MANGA", "JP", NoWord),
           Sec("Manhwa" \in st, "Manhwa", "MANGA", "KR", NoWord),
           Sec("Manhua" \in st, "Manhua", "MANGA", "CN", NoWord),
           Sec("Novel" \in st, "Novel", "MANGA", NoWord, "NOVEL"),
           Sec(web, "Novel", "MANGA", "KR", "NOVEL"),
           Sec(web, "Novel", "MANGA", "CN", "NOVEL") >>

\* The AniList part of search_unified (lines 477-504): the sections secs run in order
RECURSIVE AniPart(_, _, _, _, _, _, _)
AniPart(secs, rl, q, sg, so, page, ok) ==
    IF secs = <<>> THEN rl
    ELSE AniPart(Tail(secs),
                 AniSection(rl, Head(secs).on, Head(secs).forced_type, Head(secs).type,
                            Head(secs).country, Head(secs).format, q, sg, so, page, ok),
                 q, sg, so, page, ok)

\* search_unified(query, selected_types, selected_genres, sort_option, page).
\* f.tmdb, f.anilist, f.ol: the requests to each service succeed
search_unified(query, selected_types, selected_genres, sort_option, page, f) ==
    LET r5 == TmdbPart(TmdbSections, <<>>, query, selected_types, selected_genres,
                       sort_option, page, f.tmdb)
        n3 == AniPart(AniSections(selected_types, selected_genres), r5, query,
                      selected_genres, sort_option, page, f.anilist)
        book_genres == SelectSeq(selected_genres, LAMBDA g : g \in Range(BOOK_GENRES))
        target_genre == IF book_genres # <<>> THEN book_genres[1] ELSE NoWord
        o1 == IF "Novel" \in selected_types
              THEN process_open_library(
                       fetch_open_library(IF query # <<>> THEN query \o <<" novel">>
                                          ELSE <<"fantasy", " novel">>, target_genre,
                                          f.ol),
                       n3, "Novel")
              ELSE n3
        o2 == IF "Book" \in selected_types
              THEN process_open_library(fetch_open_library(query, target_genre, f.ol),
                                        o1, "Book")
              ELSE o1
    IN  o2

----------------------------------------------------------------------------
(* The session at start: lines 560-562, no library_titles yet, and the     *)
(* form's widgets at their defaults (lines 573-583).                       *)

FormDefault ==
    [search_query |-> <<>>, selected_types |-> {"Movies"}, selected_genres |-> <<>>,
     sort_option |-> "Popularity"]

Idle == [op |-> "none"]

SessionInit ==
    /\ library_titles = NoTitles
    /\ search_results = <<>>
    /\ search_page = 1
    /\ form = FormDefault
    /\ calls = <<>>
    /\ pc = "idle"
    /\ buttons = <<>>
    /\ last = Idle
    /\ results_list = <<>>

----------------------------------------------------------------------------
(* SpecProc: the processors applied to sample responses *)

GenreChoices == {<<>>, <<"Web Novel">>, <<"Web Novel", "Fantasy">>}

TypeChoices ==
    {{"Movies"}, {"K-Drama", "Anime"}, {"Web Series", "C-Drama", "Thai Drama"}}

TmdbSamples == {MovieRomance, TvCrash, TvNaruto, TvUntamed, TvGirl, TvBare, TvLupin}

AniTypes == {"Anime", "Donghua", "Manga", "Manhwa", "Manhua", "Novel"}

\* results_data = [] (line 426): a search starts, with its selected_types and
\* selected_genres, which every processor call of that search is given
NewList ==
    /\ \E selected_types \in TypeChoices, selected_genres \in GenreChoices :
          form' = [form EXCEPT !.selected_types = selected_types,
                               !.selected_genres = selected_genres]
    /\ results_list' = <<>>
    /\ last' = [op |-> "new_list"]
    /\ UNCHANGED <<sheet, library_titles, search_results, search_page, calls, pc, buttons>>

ProcessTmdb ==
    /\ Len(results_list) < MaxList
    /\ \E res \in TmdbSamples, media_kind \in {"Movie", "TV"} :
          /\ results_list' = process_tmdb_result(res, media_kind, results_list,
                                                 form.selected_types, form.selected_genres)
          /\ last' = [op |-> "process_tmdb_result", res |-> res, media_kind |-> media_kind,
                      before |-> results_list]
    /\ UNCHANGED <<sheet, library_titles, search_results, search_page, form, calls, pc, buttons>>

ProcessAnilist ==
    /\ Len(results_list) < MaxList
    /\ \E i \in 1..Len(AniMedia), n \in 1..2, forced_type \in AniTypes :
          LET res_list == IF n = 1 \/ i % 2 = 1 THEN <<AniMedia[i]>>
                          ELSE <<AniMedia[i], AniMedia[(i % Len(AniMedia)) + 1]>>
          IN  /\ results_list' = process_anilist_results(res_list, results_list,
                                                         forced_type, form.selected_genres)
              /\ last' = [op |-> "process_anilist_results", res_list |-> res_list,
                          forced_type |-> forced_type, before |-> results_list]
    /\ UNCHANGED <<sheet, library_titles, search_results, search_page, form, calls, pc, buttons>>

InitProc == sheet = <<REQUIRED_HEADERS>> /\ SessionInit

NextProc == NewList \/ ProcessTmdb \/ ProcessAnilist

SpecProc == InitProc /\ [][NextProc]_vars

\* The items the last processor call appended
Appended == SubSeq(results_list, Len(last.before) + 1, Len(results_list))

\* The category the display rules give a TMDB result
CategoryOf(media_kind, res) ==
    IF media_kind = "Movie" THEN "Movies"
    ELSE IF "original_language" \notin res.attrs THEN "Web Series"
    ELSE CASE res.original_language = "ko" -> "K-Drama"
           [] res.original_language = "zh" -> "C-Drama"
           [] res.original_language = "th" -> "Thai Drama"
           [] res.original_language = "ja" -> "Anime"
           [] OTHER -> "Web Series"

\* C1: process_tmdb_result appends at most one item for a result, keeps what the
\* list held, gives the item the one category of the rules (Movies for a Movie,
\* else ko/zh/th/ja by language, else Web Series), and appends only when that
\* category is in selected_types.
C1_TmdbCategory ==
    last.op = "process_tmdb_result" =>
        /\ SubSeq(results_list, 1, Len(last.before)) = last.before
        /\ Len(Appended) <= 1
        /\ \A i \in 1..Len(Appended) :
              /\ Appended[i].Type = CategoryOf(last.media_kind, last.res)
              /\ Appended[i].Type \in form.selected_types
        /\ CategoryOf(last.media_kind, last.res) \notin form.selected_types
              => Appended = <<>>

C1_Witness ==
    /\ last.op = "process_tmdb_result"
    /\ last.media_kind = "TV"
    /\ last.res = TvNaruto
    /\ Len(Appended) = 1
    /\ Appended[1].Type = "Anime"

\* The origin the rules require of a forced type
RequiredOrigin(forced_type) ==
    CASE forced_type \in {"Donghua", "Manhua"} -> "CN"
      [] forced_type = "Manhwa" -> "KR"
      [] OTHER -> "any"

OriginOf(res) == IF "countryOfOrigin" \in res.attrs THEN res.countryOfOrigin ELSE "JP"

\* C9: every item process_anilist_results appends has the forced type; an item
\* of type Donghua or Manhua comes from a CN result and one of type Manhwa from a
\* KR result, so results of another origin are skipped for those types.
C9_AnilistOrigin ==
    last.op = "process_anilist_results" =>
        LET need == RequiredOrigin(last.forced_type)
            ok == SelectSeq(last.res_list, LAMBDA r : need = "any" \/ OriginOf(r) = need)
        IN  /\ SubSeq(results_list, 1, Len(last.before)) = last.before
            /\ Len(Appended) <= Len(ok)
            /\ \A i \in 1..Len(Appended) :
                  /\ Appended[i].Type = last.forced_type
                  /\ need # "any" => Appended[i].Country = S(need)
                  /\ \E k \in 1..Len(ok) :
                        Appended[i].Title \in {ok[k].title.english, ok[k].title.romaji}

C9_Witness ==
    /\ last.op = "process_anilist_results"
    /\ last.forced_type = "Manhwa"
    /\ last.res_list = <<AniManhua, AniSolo>>
    /\ Len(Appended) = 1
    /\ Appended[1].Country = S("KR")

\* The genre names of a TMDB result
TmdbGenreNames(res) ==
    IF "genre_ids" \in res.attrs
    THEN {g \in GenreNames : TMDB_GENRE_MAP[g] \in Range(res.genre_ids)}
    ELSE {}

\* C13: with selected_genres non-empty, every TMDB result process_tmdb_result
\* appends has a genre name in selected_genres, and every AniList result
\* process_anilist_results appends has a genre among the selected genres other than
\* 'Web Novel'; with only 'Web Novel' selected no AniList result is dropped for its
\* genres.
C13_GenreFilter ==
    LET sel == form.selected_genres
        others == SelectSeq(sel, LAMBDA g : g # "Web Novel")
        need == IF last.op = "process_anilist_results" THEN RequiredOrigin(last.forced_type)
                ELSE "any"
    IN  /\ (last.op = "process_tmdb_result" /\ sel # <<>>) =>
              \A i \in 1..Len(Appended) :
                 /\ Range(sel) \cap TmdbGenreNames(last.res) # {}
                 /\ Range(sel) \cap Range(Appended[i].Genres) # {}
        /\ (last.op = "process_anilist_results" /\ others # <<>>) =>
              \A i \in 1..Len(Appended) : Range(others) \cap Range(Appended[i].Genres) # {}
        /\ (last.op = "process_anilist_results" /\ sel # <<>> /\ others = <<>>) =>
              Len(Appended)
                 = Len(SelectSeq(last.res_list, LAMBDA r : need = "any" \/ OriginOf(r) = need))

\* With Web Novel and Fantasy selected, of a Horror and a Fantasy result the
\* Fantasy one alone was appended
C13_Witness ==
    /\ last.op = "process_anilist_results"
    /\ form.selected_genres = <<"Web Novel", "Fantasy">>
    /\ last.res_list = <<AniBerserk, AniTbate>>
    /\ last.forced_type = "Novel"
    /\ Len(Appended) = 1
    /\ Appended[1].Title = AniTbate.title.english

----------------------------------------------------------------------------
(* SpecSheet: one session's library operations on the worksheet *)

ItemRomance == process_tmdb_result(MovieRomance, "Movie", <<>>, {"Movies"}, <<>>)[1]
ItemDark == process_tmdb_result(MovieDark, "Movie", <<>>, {"Movies"}, <<>>)[1]
ItemCrash == process_tmdb_result(TvCrash, "TV", <<>>, {"K-Drama"}, <<>>)[1]

ItemPool == {ItemRomance, ItemDark, ItemCrash}

PoolTitles == {i.Title : i \in ItemPool}

\* What the Manage panel's Save passes: status, season, episode
Updates == {<<S("Watching"), S("2"), S("5")>>}

OneFault(F) == {f \in F : Cardinality({k \in DOMAIN f : ~f[k]}) <= 1}

FetchFaults ==
    [conn : BOOLEAN, col : BOOLEAN, tv : BOOLEAN, append : BOOLEAN,
     rconn : BOOLEAN, rcol : BOOLEAN]
UpdateFaults == [conn : BOOLEAN, find : BOOLEAN, u1 : BOOLEAN, u2 : BOOLEAN, u3 : BOOLEAN]
DeleteFaults ==
    [conn : BOOLEAN, find : BOOLEAN, del : BOOLEAN, rconn : BOOLEAN, rcol : BOOLEAN]
ReadFaults == [rconn : BOOLEAN, rcol : BOOLEAN]

SearchVarsUnchanged ==
    UNCHANGED <<search_results, search_page, form, calls, pc, buttons, results_list>>

FetchDetailsAndAdd ==
    /\ Len(sheet) <= MaxRows
    /\ \E item \in ItemPool, f \in OneFault(FetchFaults) :
          LET r == fetch_details_and_add(sheet, library_titles, item, f)
          IN  /\ sheet' = r.sheet
              /\ library_titles' = r.library_titles
              /\ last' = [op |-> "fetch_details_and_add", item |-> item, ret |-> r.ret]
    /\ SearchVarsUnchanged

UpdateStatusInSheet ==
    /\ \E title \in PoolTitles, u \in Updates, f \in OneFault(UpdateFaults) :
          /\ sheet' = update_status_in_sheet(sheet, title, u[1], u[2], u[3], f)
          /\ last' = [op |-> "update_status_in_sheet", title |-> title, new_status |-> u[1],
                      new_season |-> u[2], new_ep |-> u[3]]
    /\ UNCHANGED library_titles
    /\ SearchVarsUnchanged

DeleteFromSheet ==
    /\ \E title \in PoolTitles, f \in OneFault(DeleteFaults) :
          LET r == delete_from_sheet(sheet, library_titles, title, f)
          IN  /\ sheet' = r.sheet
              /\ library_titles' = r.library_titles
              /\ last' = [op |-> "delete_from_sheet", title |-> title]
    /\ SearchVarsUnchanged

\* The gallery's Save Order button: the rows as filtered and dragged, then
\* bulk_update_order.  conn, bconn: the gallery's and bulk_update_order's connections
SaveOrder ==
    /\ \E conn, bconn \in BOOLEAN :
       LET sh1 == IF conn THEN get_google_sheet(sheet) ELSE sheet
           df0 == GalleryFrame(sh1)
       IN  \E filter_type \in SUBSET {df0[i].row[2] : i \in 1..Len(df0)},
              filter_status \in {{}, {S("Plan to Watch"), S("Plan to Read")}} :
           LET df == FilterFrame(df0, filter_type, filter_status)
           IN  \E category \in {df[i].row[2] : i \in 1..Len(df)} :
               LET subset == SelectSeq(df, LAMBDA d : d.row[2] = category)
                   subset_titles == [i \in 1..Len(subset) |-> subset[i].row[1]]
               IN  \E p \in Permutations(Len(subset)) :
                   LET sorted_titles == [i \in 1..Len(subset) |-> subset_titles[p[i]]]
                       new_df == ReorderedRows(df, subset, sorted_titles)
                   IN  /\ conn
                       /\ sorted_titles # subset_titles
                       /\ sheet' = IF new_df.error \/ ~bconn THEN sh1
                                   ELSE bulk_update_order(get_google_sheet(sh1), new_df.rows)
                       /\ last' = [op |-> "bulk_update_order"]
    /\ UNCHANGED library_titles
    /\ SearchVarsUnchanged

\* The search tab renders its results: existing_library = get_library_titles()
ReadLibraryTitles ==
    /\ \E f \in OneFault(ReadFaults) :
          LET r == get_library_titles(sheet, library_titles, f)
          IN  /\ sheet' = r.sheet
              /\ library_titles' = r.library_titles
    /\ last' = [op |-> "get_library_titles"]
    /\ SearchVarsUnchanged

InitSheet == sheet = <<REQUIRED_HEADERS>> /\ SessionInit

NextSheet ==
    \/ FetchDetailsAndAdd
    \/ UpdateStatusInSheet
    \/ DeleteFromSheet
    \/ SaveOrder
    \/ ReadLibraryTitles

SpecSheet == InitSheet /\ [][NextSheet]_vars

DataRows == Tail(sheet)

\* C3: no two data rows of the sheet have the same Title.
C3_NoDuplicateTitles ==
    \A i, j \in 1..Len(DataRows) : DataRows[i][1] = DataRows[j][1] => i = j

\* The last step was a call of fetch_details_and_add that returned True
AddedStep == last'.op = "fetch_details_and_add" /\ last'.ret

TvTypes == {"Web Series", "K-Drama", "C-Drama", "Thai Drama"}

\* Exactly one row was appended; the header and the rows before it are as they were
OneRowAppended ==
    /\ Len(sheet') = Len(sheet) + 1
    /\ SubSeq(sheet', 1, Len(sheet)) = sheet
    /\ Len(sheet'[Len(sheet')]) = 14

\* The columns of the appended row that C2 names after an item field hold that field
ItemColumns(row, item) ==
    /\ row[1] = item.Title
    /\ row[2] = S(item.Type)
    /\ row[3] = item.Country
    /\ row[5] = item.Genres
    /\ row[6] = item.Image
    /\ row[7] = item.Overview
    /\ row[8] = item.Rating
    /\ row[9] = item.Backdrop
    /\ row[10] = S("1")
    /\ row[11] = S("0")
    /\ row[14] = IF item.ID = None THEN <<>> ELSE item.ID

C4_UpdateFrame ==
    [][last'.op = "update_status_in_sheet" =>
          /\ Len(sheet') = Len(sheet)
          /\ \A r \in 1..Len(sheet) : \A c \in 1..NCols :
                sheet'[r][c] # sheet[r][c] =>
                   /\ r > 1
                   /\ sheet[r][1] = last'.title
                   /\ \/ c = 4 /\ sheet'[r][c] = last'.new_status
                      \/ c = 10 /\ sheet'[r][c] = last'.new_season
                      \/ c = 11 /\ sheet'[r][c] = last'.new_ep]_vars

\* The Title-column values of the data rows, stripped, the empty ones left out
SheetTitles ==
    LET kept == SelectSeq([i \in 1..Len(DataRows) |-> DataRows[i][1]], LAMBDA t : t # <<>>)
    IN  [i \in 1..Len(kept) |-> Strip(kept[i])]

\* C7: whenever library_titles is present it equals the stripped, non-empty Title
\* values of the sheet's current data rows, in sheet order.
C7_CacheCoherent == library_titles.present => library_titles.titles = SheetTitles

\* C10: when item.Title already occurs in column 1 of the sheet,
\* fetch_details_and_add(item) returns False and leaves the sheet and the cached
\* library_titles unchanged.
C10_DuplicateRefused ==
    [][(last'.op = "fetch_details_and_add"
        /\ \E r \in 1..Len(sheet) : sheet[r][1] = last'.item.Title)
          => ~last'.ret /\ sheet' = sheet /\ library_titles' = library_titles]_vars

\* C11: delete_from_sheet(title) removes exactly one row, a data row whose Title is
\* title, and leaves the header and the other rows as they were and in their
\* order; with no such row the sheet is unchanged.
C11_DeleteFrame ==
    [][last'.op = "delete_from_sheet" =>
          \/ sheet' = sheet
          \/ \E r \in 2..Len(sheet) :
                /\ sheet[r][1] = last'.title
                /\ sheet' = SubSeq(sheet, 1, r - 1) \o SubSeq(sheet, r + 1, Len(sheet))]_vars

----------------------------------------------------------------------------
(* SpecSearch: the search tab.  A script run handles the button that was   *)
(* pressed (pc = "idle") and then renders the results (pc = "render").     *)

FormOf(search_query, selected_types, selected_genres, sort_option) ==
    [search_query |-> search_query, selected_types |-> selected_types,
     selected_genres |-> selected_genres, sort_option |-> sort_option]

\* What the user may submit
Forms ==
    {FormOf(<<>>, {"Movies"}, <<>>, "Popularity"),
     FormOf(<<>>, {}, <<>>, "Popularity"),
     FormOf(S("dark"), {"Movies"}, <<>>, "Relevance"),
     FormOf(<<>>, {"Movies"}, <<>>, "Top Rated"),
     FormOf(<<>>, {"K-Drama", "Manhwa"}, <<>>, "Popularity"),
     FormOf(<<>>, {"Web Series", "Anime"}, <<>>, "Popularity"),
     FormOf(<<>>, {"K-Drama", "Manhwa"}, <<"Romance">>, "Popularity"),
     FormOf(<<>>, {"Book"}, <<"Fantasy">>, "Popularity"),
     FormOf(S("dune"), {"Novel", "Book"}, <<>>, "Popularity")}

SearchFaults == [tmdb : BOOLEAN, anilist : BOOLEAN, ol : BOOLEAN]

\* The ADD BUTTON LOGIC of lines 620-630
is_added(item, existing_library) ==
    LET clean_title == Lower(Strip(item.Title))
    IN  \E i \in 1..Len(existing_library) : Lower(Strip(existing_library[i])) = clean_title

CallRecord(query, selected_types, selected_genres, sort_option, page, results) ==
    [query |-> query, selected_types |-> selected_types,
     selected_genres |-> selected_genres, sort_option |-> sort_option, page |-> page,
     results |-> results]

\* The form is submitted (lines 587-594)
Submit ==
    /\ pc = "idle"
    /\ \E w \in Forms, f \in OneFault(SearchFaults) :
          LET selected_types == IF w.selected_types = {} THEN {"Movies"}
                                ELSE w.selected_types
              results == search_unified(w.search_query, selected_types, w.selected_genres,
                                        w.sort_option, 1, f)
          IN  /\ form' = w
              /\ search_page' = 1
              /\ search_results' = results
              /\ calls' = <<CallRecord(w.search_query, selected_types, w.selected_genres,
                                       w.sort_option, 1, results)>>
    /\ pc' = "render"
    /\ last' = [op |-> "search_unified", from |-> "submit"]
    /\ UNCHANGED <<sheet, library_titles, buttons, results_list>>

\* A faulty variant of LoadMore that C6 must reject: the search drops the cached
\* library_titles
LoadMoreDropsCache ==
    /\ pc = "idle"
    /\ search_results # <<>>
    /\ search_page < MaxPage
    /\ \E f \in OneFault(SearchFaults) :
          LET new == search_unified(form.search_query, form.selected_types,
                                    form.selected_genres, form.sort_option,
                                    search_page + 1, f)
          IN  /\ search_results' = search_results \o new
              /\ calls' = Append(calls, CallRecord(form.search_query, form.selected_types,
                                                   form.selected_genres, form.sort_option,
                                                   search_page + 1, new))
    /\ search_page' = search_page + 1
    /\ library_titles' = NoTitles
    /\ pc' = "render"
    /\ last' = [op |-> "search_unified", from |-> "load_more"]
    /\ UNCHANGED <<sheet, form, buttons, results_list>>

\* Load More Results (lines 639-644)
LoadMore ==
    /\ pc = "idle"
    /\ search_results # <<>>
    /\ search_page < MaxPage
    /\ \E f \in OneFault(SearchFaults) :
          LET new == search_unified(form.search_query, form.selected_types,
                                    form.selected_genres, form.sort_option,
                                    search_page + 1, f)
          IN  /\ search_results' = search_results \o new
              /\ calls' = Append(calls, CallRecord(form.search_query, form.selected_types,
                                                   form.selected_genres, form.sort_option,
                                                   search_page + 1, new))
    /\ search_page' = search_page + 1
    /\ pc' = "render"
    /\ last' = [op |-> "search_unified", from |-> "load_more"]
    /\ UNCHANGED <<sheet, library_titles, form, buttons, results_list>>

\* Add Library on result idx (lines 632-636): a rerun renders again on success
AddLibrary ==
    /\ pc = "idle"
    /\ Len(DataRows) < MaxAdds
    /\ \E idx \in 1..Len(search_results), f \in OneFault(FetchFaults) :
          LET r == fetch_details_and_add(sheet, library_titles, search_results[idx], f)
          IN  /\ buttons[idx] = "Add Library"
              /\ sheet' = r.sheet
              /\ library_titles' = r.library_titles
              /\ pc' = IF r.ret THEN "render" ELSE "idle"
              /\ last' = [op |-> "fetch_details_and_add", item |-> search_results[idx],
                          idx |-> idx, ret |-> r.ret]
    /\ UNCHANGED <<search_results, search_page, form, calls, buttons, results_list>>

\* The results are rendered (lines 597-637)
Render ==
    /\ pc = "render"
    /\ \E f \in OneFault(ReadFaults) :
          LET r == IF search_results # <<>> THEN get_library_titles(sheet, library_titles, f)
                   ELSE [sheet |-> sheet, library_titles |-> library_titles]
              existing_library == r.library_titles.titles
          IN  /\ sheet' = r.sheet
              /\ library_titles' = r.library_titles
              /\ buttons' = [idx \in 1..Len(search_results) |->
                                IF is_added(search_results[idx], existing_library)
                                THEN "Added" ELSE "Add Library"]
    /\ pc' = "idle"
    /\ UNCHANGED <<search_results, search_page, form, calls, last, results_list>>

InitSearch == sheet = <<REQUIRED_HEADERS>> /\ SessionInit

NextSearch == Submit \/ LoadMore \/ AddLibrary \/ Render

SpecSearch == InitSearch /\ [][NextSearch]_vars

RECURSIVE Concat(_)
Concat(seqs) == IF seqs = <<>> THEN <<>> ELSE Head(seqs) \o Concat(Tail(seqs))

\* C5: search_page >= 1, and search_results is the concatenation, in page order, of
\* the results of search_unified for pages 1..search_page, every page computed with
\* the query, types, genres and sort option of the last submitted search.
C5_Pagination ==
    /\ search_page >= 1
    /\ calls # <<>> =>
          /\ Len(calls) = search_page
          /\ search_results = Concat([i \in 1..Len(calls) |-> calls[i].results])
          /\ \A i \in 1..Len(calls) :
                /\ calls[i].page = i
                /\ calls[i].query = calls[1].query
                /\ calls[i].selected_types = calls[1].selected_types
                /\ calls[i].selected_genres = calls[1].selected_genres
                /\ calls[i].sort_option = calls[1].sort_option

\* C6: a call of search_unified, from the form's submit or from Load More, with any
\* arguments and any failing external call, leaves every row of the sheet and the
\* cached library_titles unchanged.
C6_SearchReadOnly ==
    [][(pc = "idle" /\ pc' = "render" /\ last'.op = "search_unified")
          => sheet' = sheet /\ library_titles' = library_titles]_vars

\* More results were loaded while the library held a row and its titles were cached
C6_Witness ==
    /\ last.op = "search_unified"
    /\ last.from = "load_more"
    /\ pc = "render"
    /\ Len(calls) = 2
    /\ calls[2].results # <<>>
    /\ Len(sheet) > 1
    /\ library_titles.present
    /\ library_titles.titles # <<>>

\* C8: the render that follows a fetch_details_and_add returning True shows the
\* added result as Added, and a result is shown as Added exactly when its Title,
\* stripped and lower-cased, is that of some cached library title.
C8_AddedAfterAdd ==
    pc = "idle" =>
       /\ (last.op = "fetch_details_and_add" /\ last.ret) => buttons[last.idx] = "Added"
       /\ \A idx \in DOMAIN buttons :
             buttons[idx] = "Added"
                <=> \E i \in 1..Len(library_titles.titles) :
                       Lower(Strip(library_titles.titles[i]))
                          = Lower(Strip(search_results[idx].Title))

\* C12: every item of the list search_unified returns has a Type that is in the
\* selected_types it was called with, whichever of TMDB, AniList and OpenLibrary
\* produced the item.
C12_TypesSelected ==
    \A i \in 1..Len(calls) : \A k \in 1..Len(calls[i].results) :
        calls[i].results[k].Type \in calls[i].selected_types

\* A search for Web Series and Anime returned an Anime found by TMDB's TV section
\* next to one found by AniList
C12_Witness ==
    \E i \in 1..Len(calls) :
        /\ calls[i].selected_types = {"Web Series", "Anime"}
        /\ \E k, n \in 1..Len(calls[i].results) :
              /\ calls[i].results[k].Type = "Anime"
              /\ calls[i].results[k].Country = S("ja")
              /\ calls[i].results[n].Type = "Anime"
              /\ calls[i].results[n].Country = S("JP")

\* The types C14 names as read rather than watched
ReadTypes == {"Manga", "Manhwa", "Manhua", "Book", "Novel"}

\* C14: the Status written for a newly added row is Plan to Read exactly when the
\* item's Type is Manga, Manhwa, Manhua, Book or Novel, and Plan to Watch for every
\* other Type.
C14_DefaultStatus ==
    [][(pc = "idle" /\ last'.op = "fetch_details_and_add" /\ last'.ret) =>
          /\ Len(sheet') = Len(sheet) + 1
          /\ sheet'[Len(sheet')][1] = last'.item.Title
          /\ sheet'[Len(sheet')][4] = S("Plan to Read") <=> last'.item.Type \in ReadTypes
          /\ sheet'[Len(sheet')][4] = S("Plan to Watch")
                <=> last'.item.Type \notin ReadTypes]_vars

\* A book found by the search was added as Plan to Read
C14_Witness ==
    /\ last.op = "fetch_details_and_add"
    /\ last.ret
    /\ last.item.Type = "Book"
    /\ pc = "render"
    /\ sheet[Len(sheet)][1] = last.item.Title
    /\ sheet[Len(sheet)][4] = S("Plan to Read")

====
